---- MODULE Spec2Model ----
(***************************************************************************)
(* A model of the Meteomatics connector: the time-specification formatter  *)
(* (valid_date_time.rs), the parameter and option renderers                *)
(* (parameters.rs, optionals.rs) and the query client (api_client.rs).     *)
(*                                                                         *)
(* A Rust String is modelled as a sequence of tokens (each token a TLA+    *)
(* string), so that concatenation is \o and a text can be split again on   *)
(* its separators.  An Option<T> is a sequence of length at most one:      *)
(* None is << >> and Some(x) is <<x>>.                                     *)
(***************************************************************************)
EXTENDS Integers, Sequences, FiniteSets, TLC

VARIABLES
    \* ValidDateTimeBuilder / ValidDateTime::format (valid_date_time.rs)
    builder, vdt, buildResult, fmt, fpc,
    \* Display for Parameters / Optionals (parameters.rs, optionals.rs)
    rParams, rParamsText, rOpts, rOptsText,
    \* APIClient::query_time_series (api_client.rs)
    pc, client, args, requests, response, outcome, decodeCalls, table, headerAtDecode,
    \* several query_time_series calls in flight on one APIClient
    calls

fmtVars    == <<builder, vdt, buildResult, fmt, fpc>>
renderVars == <<rParams, rParamsText, rOpts, rOptsText>>
queryVars  == <<pc, client, args, requests, response, outcome, decodeCalls, table,
               headerAtDecode>>
concVars   == <<calls>>
vars       == <<fmtVars, renderVars, queryVars, concVars>>

----------------------------------------------------------------------------
(* Bounds of the model. *)

\* Largest magnitude of a PeriodDate / PeriodTime count.
MaxN == 1
\* Longest explicit instant list (time_list).
MaxTimeList == 1
\* Longest parameter list.
MaxParams == 2
\* Longest option list.
MaxOpts == 2
\* Most data rows of a response body.
MaxRows == 2
\* Calls in flight at once on one client.
NumCalls == 2

----------------------------------------------------------------------------
(* Options and texts. *)

None == << >>
Some(x) == <<x>>
IsSome(o) == Len(o) > 0
Unwrap(o) == o[1]

SeqsUpTo(S, n) == UNION {[1..k -> S] : k \in 0..n}

RECURSIVE Join(_, _)
\* [String].join(sep)
Join(parts, sep) ==
    IF Len(parts) = 0 THEN << >>
    ELSE IF Len(parts) = 1 THEN parts[1]
    ELSE parts[1] \o sep \o Join(Tail(parts), sep)

Digit(d) == <<"0", "1", "2", "3", "4", "5", "6", "7", "8", "9">>[d + 1]

RECURSIVE Dec(_)
\* the decimal digits of a natural number
Dec(n) == IF n < 10 THEN <<Digit(n)>> ELSE Dec(n \div 10) \o <<Digit(n % 10)>>

\* Display for i32 ("{}")
I32ToString(n) == IF n < 0 THEN <<"-">> \o Dec(0 - n) ELSE Dec(n)

----------------------------------------------------------------------------
(* valid_date_time.rs *)

\* VDTOffset: a tagged instant; day and off stand for the chrono DateTime.
Instants ==
    { [tag |-> "Utc", day |-> 1, off |-> 0],
      [tag |-> "Local", day |-> 2, off |-> 2],
      [tag |-> "FixedOffset", day |-> 2, off |-> -5] }

Pad2(n) == IF n < 10 THEN <<"0">> \o Dec(n) ELSE Dec(n)

\* Display for VDTOffset: dt.to_rfc3339() whatever the variant
VDTOffsetToString(i) ==
    <<"2022-05-">> \o Pad2(i.day) \o <<"T12:00:00">>
        \o <<IF i.off < 0 THEN "-" ELSE "+">>
        \o Pad2(IF i.off < 0 THEN 0 - i.off ELSE i.off) \o <<":00">>

PeriodCounts == {-1} \cup (1..MaxN)
PeriodDates == [unit : {"Years", "Months", "Days"}, n : PeriodCounts]
PeriodTimes == [unit : {"Hours", "Minutes", "Seconds"}, n : PeriodCounts]

\* Display for PeriodDate
PeriodDateToString(p) ==
    <<"P">> \o I32ToString(p.n)
        \o <<CASE p.unit = "Years" -> "Y" [] p.unit = "Months" -> "M" [] OTHER -> "D">>

\* Display for PeriodTime
PeriodTimeToString(p) ==
    <<"PT">> \o I32ToString(p.n)
        \o <<CASE p.unit = "Hours" -> "H" [] p.unit = "Minutes" -> "M" [] OTHER -> "S">>

TimeLists == SeqsUpTo(Instants, MaxTimeList)

OptionsOf(S) == {None} \cup {Some(x) : x \in S}

\* struct ValidDateTime
ValidDateTimes ==
    [start_date_time : Instants,
     period_date : OptionsOf(PeriodDates),
     end_date_time : OptionsOf(Instants),
     time_step : OptionsOf(PeriodTimes),
     time_list : OptionsOf(TimeLists)]

LibraryErrorMsg == <<"Cannot use period date and time step simultaneously.">>

FmtOk(text) == [tag |-> "Ok", text |-> text, err |-> "", msg |-> << >>]
FmtErr(kind, msg) == [tag |-> "Err", text |-> << >>, err |-> kind, msg |-> msg]

\* Time-specification suffix as format() builds it: the period token, then
\* ":" and the step token.
SuffixOf(v) ==
    LET suffix1 == IF IsSome(v.period_date)
                   THEN PeriodDateToString(Unwrap(v.period_date)) ELSE << >>
    IN  IF IsSome(v.time_step)
        THEN (IF Len(suffix1) > 0 THEN suffix1 \o <<":">> ELSE suffix1)
                 \o PeriodTimeToString(Unwrap(v.time_step))
        ELSE suffix1

\* format() with the period/step guard moved in front of the match on
\* end_date_time
FormatGuardFirst(v) ==
    LET start == VDTOffsetToString(v.start_date_time)
        both == IsSome(v.time_step) /\ IsSome(v.period_date)
    IN  IF both THEN FmtErr("LibraryError", LibraryErrorMsg)
        ELSE IF ~IsSome(v.end_date_time) THEN FmtOk(start \o SuffixOf(v))
        ELSE LET end0 == VDTOffsetToString(Unwrap(v.end_date_time))
                 end == IF Len(SuffixOf(v)) > 0 THEN end0 \o <<":">> \o SuffixOf(v) ELSE end0
             IN  FmtOk(start \o <<"--">> \o end)

\* format() appending the suffix to the end instant without the ":"
FormatNoRangeColon(v) ==
    LET start == VDTOffsetToString(v.start_date_time)
        both == IsSome(v.time_step) /\ IsSome(v.period_date)
    IN  IF ~IsSome(v.end_date_time) THEN FmtOk(start \o SuffixOf(v))
        ELSE IF both THEN FmtErr("LibraryError", LibraryErrorMsg)
        ELSE FmtOk(start \o <<"--">> \o VDTOffsetToString(Unwrap(v.end_date_time))
                       \o SuffixOf(v))

\* format() without the period/step guard
FormatNoGuard(v) ==
    LET start == VDTOffsetToString(v.start_date_time)
    IN  IF ~IsSome(v.end_date_time) THEN FmtOk(start \o SuffixOf(v))
        ELSE LET end0 == VDTOffsetToString(Unwrap(v.end_date_time))
                 end == IF Len(SuffixOf(v)) > 0 THEN end0 \o <<":">> \o SuffixOf(v) ELSE end0
             IN  FmtOk(start \o <<"--">> \o end)

\* format() rendering the instants of time_list, when there are any, in place
\* of the start instant
FormatWithTimeList(v) ==
    IF IsSome(v.time_list) /\ Len(Unwrap(v.time_list)) > 0
    THEN FmtOk(Join([i \in 1..Len(Unwrap(v.time_list)) |->
                        VDTOffsetToString(Unwrap(v.time_list)[i])], <<",">>))
    ELSE FormatNoGuard(v)

\* ValidDateTime::format
Format(v) ==
    LET start == VDTOffsetToString(v.start_date_time)
        suffix1 == IF IsSome(v.period_date)
                   THEN PeriodDateToString(Unwrap(v.period_date)) ELSE << >>
        both == IsSome(v.time_step) /\ Len(suffix1) > 0
        suffix == IF IsSome(v.time_step)
                  THEN (IF Len(suffix1) > 0 THEN suffix1 \o <<":">> ELSE suffix1)
                           \o PeriodTimeToString(Unwrap(v.time_step))
                  ELSE suffix1
    IN  IF ~IsSome(v.end_date_time)
        THEN FmtOk(start \o suffix)
        ELSE IF both
             THEN FmtErr("LibraryError", LibraryErrorMsg)
             ELSE LET end0 == VDTOffsetToString(Unwrap(v.end_date_time))
                      end == IF Len(suffix) > 0 THEN end0 \o <<":">> \o suffix ELSE end0
                  IN  FmtOk(start \o <<"--">> \o end)


\* #[derive(Builder)]: ValidDateTimeBuilder::default(), every field unset
EmptyBuilder ==
    [start_date_time |-> None, period_date |-> None, end_date_time |-> None,
     time_step |-> None, time_list |-> None]

\* build() as a validating constructor: the end/period/step combination refused
BuilderBuildValidated(b) ==
    IF ~IsSome(b.start_date_time)
    THEN [tag |-> "Err", err |-> "UninitializedField", value |-> None]
    ELSE IF IsSome(b.end_date_time) /\ IsSome(b.period_date) /\ IsSome(b.time_step)
    THEN [tag |-> "Err", err |-> "ValidationError", value |-> None]
    ELSE [tag |-> "Ok", err |-> "",
          value |-> Some([start_date_time |-> Unwrap(b.start_date_time),
                          period_date |-> b.period_date,
                          end_date_time |-> b.end_date_time,
                          time_step |-> b.time_step,
                          time_list |-> b.time_list])]

\* ValidDateTimeBuilder::build(): start_date_time has no default and must have
\* been set; the other four fields are #[builder(default)] and become None.
BuilderBuild(b) ==
    IF ~IsSome(b.start_date_time)
    THEN [tag |-> "Err", err |-> "UninitializedField", value |-> None]
    ELSE [tag |-> "Ok", err |-> "",
          value |-> Some([start_date_time |-> Unwrap(b.start_date_time),
                          period_date |-> b.period_date,
                          end_date_time |-> b.end_date_time,
                          time_step |-> b.time_step,
                          time_list |-> b.time_list])]

NotBuilt == [tag |-> "None", err |-> "", value |-> None]
NotFormatted == [tag |-> "None", text |-> << >>, err |-> "", msg |-> << >>]

FmtInit ==
    /\ builder = EmptyBuilder
    /\ vdt = None
    /\ buildResult = NotBuilt
    /\ fmt = NotFormatted
    /\ fpc = "building"

----------------------------------------------------------------------------
(* parameters.rs *)

\* struct P { k, v: Option }
PValues ==
    { [k |-> <<"t_2m">>, v |-> Some(<<"C">>)],
      [k |-> <<"precip_1h">>, v |-> Some(<<"mm">>)],
      [k |-> <<"wind_speed_10m">>, v |-> None] }

\* PSet = Vec<P>
PSets == SeqsUpTo(PValues, MaxParams)

\* Display for P writing the ":" whether or not there is a unit
PToStringColonAlways(p) == IF ~IsSome(p.v) THEN p.k \o <<":">> ELSE p.k \o <<":">> \o Unwrap(p.v)

\* Display for P
PToString(p) == IF ~IsSome(p.v) THEN p.k ELSE p.k \o <<":">> \o Unwrap(p.v)

\* Display for Parameters
ParametersToString(p_values) ==
    Join([i \in 1..Len(p_values) |-> PToString(p_values[i])], <<",">>)

(* optionals.rs *)

\* struct Opt { k, v }
OptValues ==
    { [k |-> <<"source">>, v |-> <<"mix">>],
      [k |-> <<"calibrated">>, v |-> <<"true">>] }

\* OptSet = Vec<Opt>
OptSets == SeqsUpTo(OptValues, MaxOpts)

\* Display for Opt
OptToString(o) == o.k \o <<"=">> \o o.v

\* Display for Optionals ending every option with "&"
OptionalsToStringTrailing(opt_values) ==
    Join([i \in 1..Len(opt_values) |-> OptToString(opt_values[i]) \o <<"&">>], << >>)

\* Display for Optionals
OptionalsToString(opt_values) ==
    Join([i \in 1..Len(opt_values) |-> OptToString(opt_values[i])], <<"&">>)

NotRendered == <<"(not rendered)">>

RenderInit ==
    /\ rParams = None
    /\ rParamsText = NotRendered
    /\ rOpts = None
    /\ rOptsText = NotRendered

----------------------------------------------------------------------------
(* locations.rs, format.rs, connector_response.rs *)

\* Locations { coordinates }
LocationValues == { <<<<"47.419708">>, <<"9.358478">>>> }

\* Display for Locations: the coordinates joined by ","
LocationsToString(coordinates) == Join(coordinates, <<",">>)

\* Display for Format::CSV
FormatCSV == <<"csv">>

\* ResponseBody::new()
EmptyTable == [response_headers |-> << >>, response_records |-> << >>]

\* ResponseBody::add_header
AddHeader(t, h) == [t EXCEPT !.response_headers = Append(@, h)]

RECURSIVE SplitFrom(_, _, _, _)
\* the pieces of text between the separator tokens; cur is the piece being read
SplitFrom(text, sep, cur, acc) ==
    IF Len(text) = 0 THEN Append(acc, cur)
    ELSE IF Head(text) = sep THEN SplitFrom(Tail(text), sep, << >>, Append(acc, cur))
    ELSE SplitFrom(Tail(text), sep, Append(cur, Head(text)), acc)

Split(text, sep) == SplitFrom(text, sep, << >>, << >>)

SelectNonEmpty(ss) == SelectSeq(ss, LAMBDA x : Len(x) > 0)

\* csv::ReaderBuilder::new().delimiter(b';').from_reader(body): the lines of
\* the body (empty lines skipped), each split into its fields on ";"
CsvRows(body) ==
    LET lines == SelectNonEmpty(Split(body, "\n"))
    IN  [i \in 1..Len(lines) |-> Split(lines[i], ";")]

\* The reader has headers (the default), so records() starts after the first
\* row, and it is not flexible (the default), so a row of another width than
\* the first row is an error of the reader (ok is FALSE).
CsvRecords(body) ==
    LET rows == CsvRows(body)
    IN  [i \in 1..(Len(rows) - 1) |->
            [fields |-> rows[i + 1], ok |-> Len(rows[i + 1]) = Len(rows[1])]]

RECURSIVE PopulateFrom(_, _, _)
\* ResponseBody::populate_records, row by row: an error of the reader, or a
\* row of another width than 1 + n_values, ends the decode with an error
PopulateFrom(t, rows, n_values) ==
    IF Len(rows) = 0 THEN [tag |-> "Ok", table |-> t]
    ELSE IF ~Head(rows).ok \/ Len(Head(rows).fields) # 1 + n_values
    THEN [tag |-> "Err", table |-> t]
    ELSE PopulateFrom(
             [t EXCEPT !.response_records =
                  Append(@, [index |-> Head(rows).fields[1],
                             values |-> Tail(Head(rows).fields)])],
             Tail(rows), n_values)

\* ResponseBody::populate_records(rdr, n_values)
PopulateRecords(t, body, n_values) == PopulateFrom(t, CsvRecords(body), n_values)

----------------------------------------------------------------------------
(* api_client.rs *)

DEFAULT_API_BASE_URL == <<"https://api.meteomatics.com">>

\* APIClient::new(username, password, timeout_seconds)
NewClient == [username |-> "python-community", password |-> "secret", timeout_seconds |-> 10]

\* build_url: base_url.join(url_fragment)
BuildUrl(url_fragment) == DEFAULT_API_BASE_URL \o <<"/">> \o url_fragment

\* url_fragment with the "?" appended whether or not there are optionals
UrlFragmentAlwaysQuery(segment, parameters, locations, optionals) ==
    segment \o <<"/">> \o ParametersToString(parameters) \o <<"/">>
        \o LocationsToString(locations) \o <<"/">> \o FormatCSV \o <<"?">>
        \o (IF IsSome(optionals) THEN OptionalsToString(Unwrap(optionals)) ELSE << >>)

\* the url_fragment of query_time_series, given the formatted time segment
UrlFragment(segment, parameters, locations, optionals) ==
    LET path == segment \o <<"/">> \o ParametersToString(parameters) \o <<"/">>
                    \o LocationsToString(locations) \o <<"/">> \o FormatCSV
    IN  IF ~IsSome(optionals) THEN path
        ELSE path \o <<"?">> \o OptionalsToString(Unwrap(optionals))

Statuses == {200, 204, 404}

\* StatusCode::as_str
StatusAsStr(status) == Dec(status)

\* StatusCode::canonical_reason
CanonicalReason(status) ==
    CASE status = 200 -> "OK" [] status = 204 -> "No Content"
      [] status = 404 -> "Not Found" [] OTHER -> "<unknown status code>"

\* Display for StatusCode
StatusToString(status) == Dec(status) \o <<" ", CanonicalReason(status)>>

\* a match that sends every status below 500 to the decoder
IsDecodedStatusBelow500(status) == status < 500

\* the arm of `match response.status()` that decodes: StatusCode::OK
IsDecodedStatus(status) == status = 200

NoTable == EmptyTable

NoOutcome ==
    [tag |-> "None", kind |-> "", msg |-> << >>, status |-> 0, http_status_code |-> << >>,
     http_status_message |-> << >>, body |-> << >>, response_body |-> NoTable]

\* Err(ConnectorError::LibraryError(msg)), propagated by `?`
ErrLibrary(msg) == [NoOutcome EXCEPT !.tag = "Err", !.kind = "LibraryError", !.msg = msg]

\* Err(ConnectorError::HttpError(status.to_string(), body, status))
ErrHttp(status, body) ==
    [NoOutcome EXCEPT !.tag = "Err", !.kind = "HttpError", !.status = status,
                      !.http_status_message = StatusToString(status), !.body = body]

\* Err(ConnectorError::ApiError { source })
ErrApi == [NoOutcome EXCEPT !.tag = "Err", !.kind = "ApiError"]

\* Err(ConnectorError::GenericError(error))
ErrGeneric == [NoOutcome EXCEPT !.tag = "Err", !.kind = "GenericError"]

\* response.text().await.unwrap() on a body that cannot be read
Panicked == [NoOutcome EXCEPT !.tag = "Panic"]

\* Ok(ConnectorResponse { response_body, http_status_code, http_status_message })
OkResponse(t, status) ==
    [NoOutcome EXCEPT !.tag = "Ok", !.status = status,
                      !.http_status_code = StatusAsStr(status),
                      !.http_status_message = StatusToString(status),
                      !.response_body = t]

RECURSIVE AddHeaders(_, _)
\* for header in ... { response_body.add_header(header) }
AddHeaders(t, hs) == IF Len(hs) = 0 THEN t ELSE AddHeaders(AddHeader(t, Head(hs)), Tail(hs))

\* the header built with the parameter columns in front of the prefix columns
HeaderTableParametersFirst(prefix_headers, p_values) ==
    AddHeaders(AddHeaders(EmptyTable, [i \in 1..Len(p_values) |-> PToString(p_values[i])]),
               prefix_headers)

\* the table of create_response once its header is built
HeaderTable(prefix_headers, p_values) ==
    AddHeaders(AddHeaders(EmptyTable, prefix_headers),
               [i \in 1..Len(p_values) |-> PToString(p_values[i])])

\* create_response handing back whatever was decoded before the error
CreateResponsePartial(status, body, prefix_headers, p_values) ==
    OkResponse(PopulateRecords(HeaderTable(prefix_headers, p_values), body,
                               Len(p_values)).table, status)

\* APIClient::create_response, from the body on
CreateResponse(status, body, prefix_headers, p_values) ==
    LET result_body == PopulateRecords(HeaderTable(prefix_headers, p_values), body,
                                       Len(p_values))
    IN  IF result_body.tag = "Ok" THEN OkResponse(result_body.table, status)
        ELSE ErrGeneric

PrefixHeaders == <<<<"validdate">>>>

----------------------------------------------------------------------------
(* The builder and the formatter as a state machine. *)

SetStartDateTime ==
    /\ fpc = "building"
    /\ \E i \in Instants : builder' = [builder EXCEPT !.start_date_time = Some(i)]
    /\ UNCHANGED <<vdt, buildResult, fmt, fpc, renderVars, queryVars, concVars>>

SetPeriodDate ==
    /\ fpc = "building"
    /\ \E p \in PeriodDates : builder' = [builder EXCEPT !.period_date = Some(p)]
    /\ UNCHANGED <<vdt, buildResult, fmt, fpc, renderVars, queryVars, concVars>>

SetEndDateTime ==
    /\ fpc = "building"
    /\ \E i \in Instants : builder' = [builder EXCEPT !.end_date_time = Some(i)]
    /\ UNCHANGED <<vdt, buildResult, fmt, fpc, renderVars, queryVars, concVars>>

SetTimeStep ==
    /\ fpc = "building"
    /\ \E p \in PeriodTimes : builder' = [builder EXCEPT !.time_step = Some(p)]
    /\ UNCHANGED <<vdt, buildResult, fmt, fpc, renderVars, queryVars, concVars>>

SetTimeList ==
    /\ fpc = "building"
    /\ \E l \in TimeLists : builder' = [builder EXCEPT !.time_list = Some(l)]
    /\ UNCHANGED <<vdt, buildResult, fmt, fpc, renderVars, queryVars, concVars>>

\* .build()
Build ==
    /\ fpc = "building"
    /\ buildResult' = BuilderBuild(builder)
    /\ vdt' = BuilderBuild(builder).value
    /\ fpc' = "built"
    /\ UNCHANGED <<builder, fmt, renderVars, queryVars, concVars>>

\* vdt.format() on the value build() returned
FormatVdt ==
    /\ fpc = "built"
    /\ IsSome(vdt)
    /\ fmt' = Format(Unwrap(vdt))
    /\ fpc' = "formatted"
    /\ UNCHANGED <<builder, vdt, buildResult, renderVars, queryVars, concVars>>

----------------------------------------------------------------------------
(* The renderers as a state machine. *)

\* Parameters { p_values }.to_string()
RenderParameters ==
    /\ rParams = None
    /\ \E ps \in PSets :
        /\ rParams' = Some(ps)
        /\ rParamsText' = ParametersToString(ps)
    /\ UNCHANGED <<rOpts, rOptsText, fmtVars, queryVars, concVars>>

\* Optionals { opt_values }.to_string()
RenderOptionals ==
    /\ rOpts = None
    /\ \E os \in OptSets :
        /\ rOpts' = Some(os)
        /\ rOptsText' = OptionalsToString(os)
    /\ UNCHANGED <<rParams, rParamsText, fmtVars, queryVars, concVars>>

----------------------------------------------------------------------------
(* query_time_series as a state machine: the call up to the send, then the   *)
(* transport's answer.                                                      *)

QueryInit ==
    /\ pc = "idle"
    /\ client = NewClient
    /\ args = None
    /\ requests = << >>
    /\ response = None
    /\ outcome = NoOutcome
    /\ decodeCalls = 0
    /\ table = EmptyTable
    /\ headerAtDecode = << >>

UtcInstant == [tag |-> "Utc", day |-> 1, off |-> 0]
LocalInstant == [tag |-> "Local", day |-> 2, off |-> 2]

\* the time specifications the query is called with
QueryVdts ==
    [start_date_time : {UtcInstant},
     period_date : {None, Some([unit |-> "Days", n |-> 1])},
     end_date_time : {None, Some(LocalInstant)},
     time_step : {None, Some([unit |-> "Hours", n |-> 1])},
     time_list : {None}]

\* the parameter lists the query is called with
QueryPSets ==
    SeqsUpTo({[k |-> <<"t_2m">>, v |-> Some(<<"C">>)],
              [k |-> <<"wind_speed_10m">>, v |-> None]}, MaxParams)

AllOpts ==
    <<[k |-> <<"source">>, v |-> <<"mix">>], [k |-> <<"calibrated">>, v |-> <<"true">>],
      [k |-> <<"model">>, v |-> <<"mix">>], [k |-> <<"source">>, v |-> <<"mix">>]>>

\* the optionals argument: absent, or the first n of a list of options
QueryOptionals == {None} \cup {Some(SubSeq(AllOpts, 1, n)) : n \in 0..MaxOpts}

Ts1 == "2020-01-01T00:00:00Z"
Ts2 == "2020-01-02T00:00:00Z"

\* one line of a body: w fields joined by ";"
BodyLine(first, w) == Join([i \in 1..w |-> IF i = 1 THEN <<first>> ELSE <<"1.0">>], <<";">>)

DataLines == {BodyLine(Ts1, w) : w \in 1..3} \cup {BodyLine(Ts2, 2)}
HeaderLines == {BodyLine("validdate", w) : w \in 1..3}

\* the bodies the server may answer with: nothing, or a header line and data lines
Bodies ==
    { << >>, <<"Unauthorized">> } \cup
    { Join(<<h>> \o ls, <<"\n">>) \o <<"\n">> : h \in HeaderLines, ls \in SeqsUpTo(DataLines, MaxRows) }

\* a response: its status and its body, None when the body cannot be read
Responses == [status : Statuses, body : OptionsOf(Bodies)]

QueryTimeSeries ==
    /\ pc = "idle"
    /\ \E v \in QueryVdts, ps \in QueryPSets, ls \in LocationValues, os \in QueryOptionals :
        LET f == Format(v)
        IN  /\ args' = Some([vdt |-> v, parameters |-> ps, locations |-> ls, optionals |-> os])
            /\ IF f.tag = "Err"
               THEN /\ outcome' = ErrLibrary(f.msg)
                    /\ pc' = "done"
                    /\ requests' = requests
               ELSE /\ requests' = Append(requests,
                            [method |-> "GET",
                             url |-> BuildUrl(UrlFragment(f.text, ps, ls, os)),
                             username |-> client.username,
                             password |-> client.password])
                    /\ pc' = "awaiting"
                    /\ outcome' = outcome
    /\ UNCHANGED <<client, response, decodeCalls, table, headerAtDecode, fmtVars, renderVars,
                   concVars>>

\* a transport error answered by sending the request once more
TransportErrorRetry ==
    /\ pc = "awaiting"
    /\ Len(requests) < 2
    /\ requests' = Append(requests, requests[1])
    /\ UNCHANGED <<pc, client, args, response, outcome, decodeCalls, table, headerAtDecode,
                   fmtVars, renderVars, concVars>>

\* do_http_get(...).await is Err(reqwest::Error)
TransportError ==
    /\ pc = "awaiting"
    /\ outcome' = ErrApi
    /\ pc' = "done"
    /\ UNCHANGED <<client, args, requests, response, decodeCalls, table, headerAtDecode,
                   fmtVars, renderVars, concVars>>

\* do_http_get(...).await is Ok(response)
HttpResponse ==
    /\ pc = "awaiting"
    /\ \E r \in Responses :
        /\ response' = Some(r)
        /\ IF ~IsSome(r.body)
           THEN /\ outcome' = Panicked
                /\ UNCHANGED <<decodeCalls, table, headerAtDecode>>
           ELSE IF IsDecodedStatus(r.status)
           THEN LET p_values == Unwrap(args).parameters
                    header == HeaderTable(PrefixHeaders, p_values)
                IN  /\ decodeCalls' = decodeCalls + 1
                    /\ headerAtDecode' = header.response_headers
                    /\ table' = PopulateRecords(header, Unwrap(r.body), Len(p_values)).table
                    /\ outcome' = CreateResponse(r.status, Unwrap(r.body), PrefixHeaders, p_values)
           ELSE /\ outcome' = ErrHttp(r.status, Unwrap(r.body))
                /\ UNCHANGED <<decodeCalls, table, headerAtDecode>>
    /\ pc' = "done"
    /\ UNCHANGED <<client, args, requests, fmtVars, renderVars, concVars>>

----------------------------------------------------------------------------
(* Several calls in flight on one client: every call has its own arguments,  *)
(* url_fragment, response and result; the client is borrowed as &self.       *)

Calls == 1..NumCalls

\* a call that has not started; overlap counts the other calls that were in
\* flight when this one got its answer
IdleCall ==
    [pc |-> "idle", args |-> None, request |-> None, response |-> None,
     outcome |-> NoOutcome, overlap |-> 0]

ConcInit == calls = [c \in Calls |-> IdleCall]

\* the arguments the concurrent calls are made with
ConcVdts ==
    { v \in QueryVdts : /\ IsSome(v.period_date) = IsSome(v.time_step)
                        /\ IsSome(v.end_date_time) = IsSome(v.time_step) }

ConcPSets ==
    { <<[k |-> <<"t_2m">>, v |-> Some(<<"C">>)]>>,
      <<[k |-> <<"t_2m">>, v |-> Some(<<"C">>)], [k |-> <<"wind_speed_10m">>, v |-> None]>> }

ConcOptionals == {Some(SubSeq(AllOpts, 1, 1))}

\* the answers the concurrent calls get
ConcResponses ==
    { [status |-> 200, body |-> Some(Join(<<BodyLine("validdate", 2), BodyLine(Ts1, 2)>>, <<"\n">>) \o <<"\n">>)],
      [status |-> 200, body |-> Some(Join(<<BodyLine("validdate", 3), BodyLine(Ts2, 3)>>, <<"\n">>) \o <<"\n">>)],
      [status |-> 404, body |-> Some(<<"Unauthorized">>)],
      [status |-> 200, body |-> None] }

\* the other calls waiting for their answer
InFlightOthers(cs, c) == {d \in Calls \ {c} : cs[d].pc = "awaiting"}

\* the arguments of the first call that was started, as if the client kept them
SharedArgs(cs, c) ==
    Unwrap(cs[CHOOSE d \in Calls : /\ IsSome(cs[d].args)
                                   /\ \A e \in Calls : IsSome(cs[e].args) => d <= e].args)

\* the arguments a call works with: its own parameters, moved into its future
OwnArgs(cs, c) == Unwrap(cs[c].args)

\* call c of query_time_series, up to do_http_get(...).await
CallQueryTimeSeries(c) ==
    /\ calls[c].pc = "idle"
    /\ \E v \in ConcVdts, ps \in ConcPSets, ls \in LocationValues, os \in ConcOptionals :
        LET a == [vdt |-> v, parameters |-> ps, locations |-> ls, optionals |-> os]
            f == Format(v)
        IN  calls' = [calls EXCEPT ![c] =
                IF f.tag = "Err"
                THEN [@ EXCEPT !.args = Some(a), !.outcome = ErrLibrary(f.msg), !.pc = "done"]
                ELSE [@ EXCEPT !.args = Some(a),
                               !.request = Some([method |-> "GET",
                                                 url |-> BuildUrl(UrlFragment(f.text, ps, ls, os)),
                                                 username |-> client.username,
                                                 password |-> client.password]),
                               !.pc = "awaiting"]]
    /\ UNCHANGED <<fmtVars, renderVars, queryVars>>

\* call c: do_http_get(...).await is Err(reqwest::Error)
CallTransportError(c) ==
    /\ calls[c].pc = "awaiting"
    /\ calls' = [calls EXCEPT ![c] =
            [@ EXCEPT !.outcome = ErrApi, !.pc = "done",
                      !.overlap = Cardinality(InFlightOthers(calls, c))]]
    /\ UNCHANGED <<fmtVars, renderVars, queryVars>>

\* call c: do_http_get(...).await is Ok(response)
CallHttpResponse(c) ==
    /\ calls[c].pc = "awaiting"
    /\ \E r \in ConcResponses :
        LET p_values == OwnArgs(calls, c).parameters
            result == IF ~IsSome(r.body) THEN Panicked
                      ELSE IF IsDecodedStatus(r.status)
                      THEN CreateResponse(r.status, Unwrap(r.body), PrefixHeaders, p_values)
                      ELSE ErrHttp(r.status, Unwrap(r.body))
        IN  calls' = [calls EXCEPT ![c] =
                [@ EXCEPT !.response = Some(r), !.outcome = result, !.pc = "done",
                          !.overlap = Cardinality(InFlightOthers(calls, c))]]
    /\ UNCHANGED <<fmtVars, renderVars, queryVars>>

----------------------------------------------------------------------------
(* Specifications. *)

Init == FmtInit /\ RenderInit /\ QueryInit /\ ConcInit

Next == QueryTimeSeries \/ TransportError \/ HttpResponse

\* the query client
Spec == Init /\ [][Next]_vars

FormatNext ==
    \/ SetStartDateTime \/ SetPeriodDate \/ SetEndDateTime \/ SetTimeStep \/ SetTimeList
    \/ Build \/ FormatVdt

\* the builder and the formatter
SpecFormat == Init /\ [][FormatNext]_vars

RenderNext == RenderParameters \/ RenderOptionals

\* the renderers
SpecRender == Init /\ [][RenderNext]_vars

ConcNext ==
    \E c \in Calls :
        CallQueryTimeSeries(c) \/ CallTransportError(c) \/ CallHttpResponse(c)

\* several calls in flight on one client
SpecConcurrent == Init /\ [][ConcNext]_vars

----------------------------------------------------------------------------
(* Properties of the time-specification formatter (SpecFormat). *)

HasPeriod(v) == IsSome(v.period_date)
HasStep(v) == IsSome(v.time_step)
HasEnd(v) == IsSome(v.end_date_time)
AllThree(v) == HasEnd(v) /\ HasPeriod(v) /\ HasStep(v)

PeriodToken(v) == PeriodDateToString(Unwrap(v.period_date))
StepToken(v) == PeriodTimeToString(Unwrap(v.time_step))

\* the suffix of a time specification without an end, case by case
SuffixByCase(v) ==
    CASE ~HasPeriod(v) /\ ~HasStep(v) -> << >>
      [] HasPeriod(v) /\ ~HasStep(v) -> PeriodToken(v)
      [] ~HasPeriod(v) /\ HasStep(v) -> StepToken(v)
      [] HasPeriod(v) /\ HasStep(v) -> PeriodToken(v) \o <<":">> \o StepToken(v)

(* C1: with end_date_time absent, format() returns Ok(render(start) followed  *)
(* by the suffix): nothing, the period token, the step token, or the period  *)
(* token, ":" and the step token; it never returns an error.                 *)
C1_EndAbsentFormat ==
    fpc = "formatted" =>
        LET v == Unwrap(vdt)
        IN  ~HasEnd(v) =>
                /\ fmt.tag = "Ok"
                /\ fmt.text = VDTOffsetToString(v.start_date_time) \o SuffixByCase(v)

\* C1's case: a formatted specification with no end and both period and step
C1_Witness ==
    /\ fpc = "formatted"
    /\ ~HasEnd(Unwrap(vdt)) /\ HasPeriod(Unwrap(vdt)) /\ HasStep(Unwrap(vdt))
    /\ fmt.tag = "Ok"

(* C2: with end_date_time present and at most one of period_date / time_step *)
(* set, format() returns Ok(render(start) "--" render(end)), followed by ":" *)
(* and the one token exactly when one of the two is set.                     *)
C2_RangeFormat ==
    fpc = "formatted" =>
        LET v == Unwrap(vdt)
            range == VDTOffsetToString(v.start_date_time) \o <<"--">>
                         \o VDTOffsetToString(Unwrap(v.end_date_time))
        IN  HasEnd(v) /\ ~(HasPeriod(v) /\ HasStep(v)) =>
                /\ fmt.tag = "Ok"
                /\ HasPeriod(v) => fmt.text = range \o <<":">> \o PeriodToken(v)
                /\ HasStep(v) => fmt.text = range \o <<":">> \o StepToken(v)
                /\ ~HasPeriod(v) /\ ~HasStep(v) => fmt.text = range

\* C2's case: a formatted start--end range with a time step and no period
C2_Witness ==
    /\ fpc = "formatted"
    /\ HasEnd(Unwrap(vdt)) /\ HasStep(Unwrap(vdt)) /\ ~HasPeriod(Unwrap(vdt))
    /\ fmt.tag = "Ok"

(* C3 as stated: construction with end_date_time, period_date and time_step  *)
(* all set fails, so that no ValidDateTime holds all three.                  *)
C3_ConstructionFails ==
    fpc # "building" /\ AllThree(builder) => buildResult.tag = "Err" /\ vdt = None

(* C3 as amended: build() with start, end, period and step all set succeeds  *)
(* and returns the value holding them; the combination is refused only by    *)
(* format(), which returns the LibraryError for every such value.            *)
C3_RefusedByFormat ==
    fpc # "building" /\ AllThree(builder) /\ IsSome(builder.start_date_time) =>
        /\ buildResult.tag = "Ok"
        /\ vdt = buildResult.value
        /\ IsSome(vdt)
        /\ Unwrap(vdt).period_date = builder.period_date
        /\ Unwrap(vdt).end_date_time = builder.end_date_time
        /\ Unwrap(vdt).time_step = builder.time_step
        /\ fpc = "formatted" =>
               fmt.tag = "Err" /\ fmt.err = "LibraryError" /\ fmt.msg = LibraryErrorMsg

\* C3's case: a built value holding end, period and step, and refused by format()
C3_Witness ==
    /\ fpc = "formatted"
    /\ buildResult.tag = "Ok"
    /\ AllThree(Unwrap(vdt))
    /\ fmt.tag = "Err"

----------------------------------------------------------------------------
(* Properties of the renderers (SpecRender). *)

\* the pieces of a rendered list: none for the empty text
Pieces(text, sep) == IF Len(text) = 0 THEN << >> ELSE Split(text, sep)

Contains(text, tok) == \E i \in 1..Len(text) : text[i] = tok

NoRepeat(ss) == \A i, j \in 1..Len(ss) : ss[i] = ss[j] => i = j

(* C5: the rendered Parameters are the parameters in the caller's order       *)
(* joined by ",", each "k:v" with a unit and "k" alone (no colon) without;   *)
(* the empty list renders as the empty string.                               *)
C5_ParametersRender ==
    IsSome(rParams) =>
        LET ps == Unwrap(rParams)
            pieces == Pieces(rParamsText, ",")
        IN  /\ Len(pieces) = Len(ps)
            /\ Len(ps) = 0 => rParamsText = << >>
            /\ \A i \in 1..Len(ps) :
                   IF IsSome(ps[i].v)
                   THEN pieces[i] = ps[i].k \o <<":">> \o Unwrap(ps[i].v)
                   ELSE pieces[i] = ps[i].k /\ ~Contains(pieces[i], ":")

\* C5's case: a rendered list of a parameter with a unit and one without
C5_Witness ==
    /\ IsSome(rParams)
    /\ Len(Unwrap(rParams)) = 2
    /\ IsSome(Unwrap(rParams)[1].v) /\ ~IsSome(Unwrap(rParams)[2].v)
    /\ rParamsText # NotRendered

(* C6: the parameter list held by Parameters and its rendered token list     *)
(* contain no parameter more than once.                                      *)
C6_NoDuplicateParameters ==
    IsSome(rParams) =>
        /\ NoRepeat(Unwrap(rParams))
        /\ NoRepeat(Pieces(rParamsText, ","))

(* C7: the rendered Optionals are the options in the caller's order, each    *)
(* "k=v", joined by "&", with no leading or trailing separator.              *)
C7_OptionalsRender ==
    IsSome(rOpts) =>
        LET os == Unwrap(rOpts)
            pieces == Pieces(rOptsText, "&")
        IN  /\ Len(pieces) = Len(os)
            /\ \A i \in 1..Len(os) : pieces[i] = os[i].k \o <<"=">> \o os[i].v
            /\ Len(rOptsText) > 0 => rOptsText[1] # "&" /\ rOptsText[Len(rOptsText)] # "&"

\* C7's case: a rendered list of two different options
C7_Witness ==
    /\ IsSome(rOpts)
    /\ Len(Unwrap(rOpts)) = 2
    /\ Unwrap(rOpts)[1] # Unwrap(rOpts)[2]
    /\ Contains(rOptsText, "&")

----------------------------------------------------------------------------
(* Properties of the query client (Spec). *)

Called == IsSome(args)
Answered == pc = "done" /\ IsSome(response)
Is2xx(status) == status \in 200..299

(* C4: a query whose time specification has end, period and step all set     *)
(* returns the LibraryError of format() and sends no HTTP request, with or   *)
(* without optionals: the call is over before the network step.              *)
C4_RejectedBeforeNetwork ==
    Called /\ AllThree(Unwrap(args).vdt) =>
        /\ pc = "done"
        /\ outcome.tag = "Err" /\ outcome.kind = "LibraryError"
        /\ outcome.msg = LibraryErrorMsg
        /\ requests = << >>
        /\ response = None

\* C4's case: the refused call, made with optionals
C4_Witness ==
    /\ Called
    /\ AllThree(Unwrap(args).vdt)
    /\ IsSome(Unwrap(args).optionals)
    /\ outcome.kind = "LibraryError"

\* the path of a request, relative to the base origin
RelativePath(url) == SubSeq(url, Len(DEFAULT_API_BASE_URL) + 2, Len(url))

(* C8: for a valid time specification the relative path requested is         *)
(* <time-segment>/<parameters>/<locations>/csv in that order, and "?" and the *)
(* rendered options follow if and only if the optionals are present; without *)
(* optionals the path has no "?".                                            *)
C8_RequestPath ==
    Called /\ ~AllThree(Unwrap(args).vdt) =>
        /\ Len(requests) = 1
        /\ LET a == Unwrap(args)
               url == requests[1].url
               rel == RelativePath(url)
               parts == Split(rel, "?")
               segs == Split(parts[1], "/")
           IN  /\ SubSeq(url, 1, Len(DEFAULT_API_BASE_URL) + 1) = DEFAULT_API_BASE_URL \o <<"/">>
               /\ Len(segs) = 4
               /\ segs[1] = Format(a.vdt).text
               /\ segs[2] = ParametersToString(a.parameters)
               /\ segs[3] = LocationsToString(a.locations)
               /\ segs[4] = <<"csv">>
               /\ IsSome(a.optionals) <=> Contains(rel, "?")
               /\ IsSome(a.optionals) =>
                      Len(parts) = 2 /\ parts[2] = OptionalsToString(Unwrap(a.optionals))

\* C8's case: a request sent for a query with two options
C8_Witness ==
    /\ Called
    /\ Len(requests) = 1
    /\ IsSome(Unwrap(args).optionals)
    /\ Len(Unwrap(Unwrap(args).optionals)) = 2
    /\ Len(Unwrap(args).parameters) = 2

(* C9: a response whose status is not 2xx makes query_time_series return the *)
(* HttpError carrying that status and the body as received, and neither the  *)
(* header construction nor populate_records runs for it.                     *)
C9_Non2xxIsHttpError ==
    Answered /\ ~Is2xx(Unwrap(response).status) =>
        /\ decodeCalls = 0
        /\ table = EmptyTable
        /\ IsSome(Unwrap(response).body) =>
               /\ outcome.tag = "Err" /\ outcome.kind = "HttpError"
               /\ outcome.status = Unwrap(response).status
               /\ outcome.body = Unwrap(Unwrap(response).body)

\* C9's case: a 404 with a body, answered with the HttpError
C9_Witness ==
    /\ Answered
    /\ Unwrap(response).status = 404
    /\ Unwrap(response).body = Some(<<"Unauthorized">>)
    /\ outcome.kind = "HttpError"

(* C10: a response with any 2xx status has its body read, the header built   *)
(* and the body decoded with field_count = len(parameters); when the decode  *)
(* succeeds the call returns the table with the status code and status text, *)
(* not an HttpError.                                                         *)
C10_Any2xxIsDecoded ==
    Answered /\ Is2xx(Unwrap(response).status) /\ IsSome(Unwrap(response).body) =>
        LET r == Unwrap(response)
            p_values == Unwrap(args).parameters
            decoded == PopulateRecords(HeaderTable(PrefixHeaders, p_values),
                                       Unwrap(r.body), Len(p_values))
        IN  /\ decodeCalls = 1
            /\ outcome.kind # "HttpError"
            /\ decoded.tag = "Ok" =>
                   /\ outcome.tag = "Ok"
                   /\ outcome.response_body = decoded.table
                   /\ outcome.http_status_code = StatusAsStr(r.status)
                   /\ outcome.http_status_message = StatusToString(r.status)

(* C11: a call with a valid time specification sends exactly one HTTP GET   *)
(* and never a second: a transport failure ends it with the ApiError, a     *)
(* non-2xx status with the HttpError, a failed decode with the decode       *)
(* error, each at once and with no retry.                                   *)
C11_OneRequestNoRetry ==
    Called /\ ~AllThree(Unwrap(args).vdt) =>
        /\ Len(requests) = 1
        /\ requests[1].method = "GET"
        /\ pc \in {"awaiting", "done"}
        /\ pc = "awaiting" => outcome = NoOutcome /\ response = None
        /\ pc = "done" /\ response = None =>
               outcome.tag = "Err" /\ outcome.kind = "ApiError"
        /\ pc = "done" /\ IsSome(response) /\ IsSome(Unwrap(response).body) =>
               LET r == Unwrap(response)
               IN  /\ ~Is2xx(r.status) => outcome.tag = "Err" /\ outcome.kind = "HttpError"
                   /\ decodeCalls = 1 /\ outcome.tag # "Ok" =>
                          outcome.tag = "Err" /\ outcome.kind = "GenericError"

\* C11's case: a call ended by a transport failure, its one request sent
C11_Witness ==
    /\ pc = "done"
    /\ response = None
    /\ Len(requests) = 1
    /\ outcome.kind = "ApiError"

\* once a call is over nothing more is sent and its result stays
C11_DoneIsFinal == [][pc = "done" => UNCHANGED <<pc, requests, outcome>>]_vars

\* the data rows of a body as the claims read them: the lines after the first,
\* each split into its fields
DataRowsOf(body) ==
    LET lines == SelectSeq(Split(body, "\n"), LAMBDA l : Len(l) > 0)
    IN  [i \in 1..(Len(lines) - 1) |-> Split(lines[i + 1], ";")]

FieldCount == Len(Unwrap(args).parameters)

\* a decoded response: status 200 with a body that could be read
Decoded ==
    /\ Answered
    /\ Unwrap(response).status = 200
    /\ IsSome(Unwrap(response).body)

DecodedRows == DataRowsOf(Unwrap(Unwrap(response).body))

(* C12: when a data row of the body has another field count than            *)
(* 1 + field_count the decode fails and is abandoned as a whole:            *)
(* query_time_series returns the decode error, with no table and none of    *)
(* the records of the rows before.                                          *)
C12_DecodeAllOrNothing ==
    Decoded /\ (\E i \in 1..Len(DecodedRows) : Len(DecodedRows[i]) # 1 + FieldCount) =>
        /\ outcome.tag = "Err"
        /\ outcome.kind = "GenericError"
        /\ outcome.response_body = NoTable
        /\ outcome.response_body.response_records = << >>

\* C12's case: a well-formed row decoded into the local table, then a
\* malformed row, and the call ended with the error
C12_Witness ==
    /\ Decoded
    /\ Len(DecodedRows) = 2
    /\ Len(DecodedRows[1]) = 1 + FieldCount
    /\ Len(DecodedRows[2]) # 1 + FieldCount
    /\ Len(table.response_records) = 1
    /\ outcome.tag = "Err"

(* C13: a body whose first row is the header and whose k >= 0 data rows     *)
(* each have exactly 1 + field_count fields decodes without error into      *)
(* exactly k records in row order, record i keyed by field 0 of data row i  *)
(* with the fields 1..field_count of that row as its values; the header row *)
(* is no record, and an empty body gives zero records and no error.         *)
C13_WellFormedRowsDecode ==
    Decoded /\ (\A i \in 1..Len(DecodedRows) : Len(DecodedRows[i]) = 1 + FieldCount) =>
        /\ outcome.tag = "Ok"
        /\ LET recs == outcome.response_body.response_records
           IN  /\ Len(recs) = Len(DecodedRows)
               /\ \A i \in 1..Len(recs) :
                      /\ recs[i].index = DecodedRows[i][1]
                      /\ Len(recs[i].values) = FieldCount
                      /\ \A j \in 1..FieldCount : recs[i].values[j] = DecodedRows[i][j + 1]

\* the column a requested parameter gets: its name, and ":" and its unit if any
ColumnOf(p) == IF IsSome(p.v) THEN p.k \o <<":">> \o Unwrap(p.v) ELSE p.k

(* C14: the table of a successful query has exactly 1 + len(parameters)     *)
(* header columns, "validdate" first and then one column per requested      *)
(* parameter in the caller's order; the header is complete when the decoder *)
(* starts and the decoder leaves it as it is.                               *)
C14_HeaderColumns ==
    /\ outcome.tag = "Ok" =>
           LET hs == outcome.response_body.response_headers
               ps == Unwrap(args).parameters
           IN  /\ Len(hs) = 1 + Len(ps)
               /\ hs[1] = <<"validdate">>
               /\ \A i \in 1..Len(ps) : hs[i + 1] = ColumnOf(ps[i])
               /\ headerAtDecode = hs
    /\ decodeCalls = 1 =>
           /\ Len(headerAtDecode) = 1 + Len(Unwrap(args).parameters)
           /\ table.response_headers = headerAtDecode

\* C14's case: a successful query for two parameters with a decoded record
C14_Witness ==
    /\ outcome.tag = "Ok"
    /\ Len(Unwrap(args).parameters) = 2
    /\ Unwrap(args).parameters[1] # Unwrap(args).parameters[2]
    /\ Len(outcome.response_body.response_records) >= 1

\* the request a call with arguments a sends when it is the only call
SoloRequest(a) ==
    [method |-> "GET",
     url |-> BuildUrl(UrlFragment(Format(a.vdt).text, a.parameters, a.locations, a.optionals)),
     username |-> NewClient.username,
     password |-> NewClient.password]

\* the result of a call with arguments a answered by r when it is the only call
SoloOutcome(a, r) ==
    IF ~IsSome(r.body) THEN Panicked
    ELSE IF IsDecodedStatus(r.status)
    THEN CreateResponse(r.status, Unwrap(r.body), PrefixHeaders, a.parameters)
    ELSE ErrHttp(r.status, Unwrap(r.body))

(* C15: calls of query_time_series in flight together on one client share   *)
(* no mutable state: in every interleaving each call's request, outcome and *)
(* table are what its own arguments and its own HTTP response give when it  *)
(* is the only call, and the client stays as it was constructed.            *)
C15_CallsIndependent ==
    /\ client = NewClient
    /\ \A c \in Calls :
           calls[c].pc # "idle" =>
               LET k == calls[c]
                   a == Unwrap(k.args)
               IN  IF Format(a.vdt).tag = "Err"
                   THEN /\ k.pc = "done"
                        /\ k.request = None /\ k.response = None
                        /\ k.outcome = ErrLibrary(Format(a.vdt).msg)
                   ELSE /\ k.request = Some(SoloRequest(a))
                        /\ k.pc = "awaiting" => k.response = None /\ k.outcome = NoOutcome
                        /\ k.pc = "done" =>
                               k.outcome = IF IsSome(k.response)
                                           THEN SoloOutcome(a, Unwrap(k.response))
                                           ELSE ErrApi

\* a step of one call leaves every other call as it was
C15_StepsAreLocal ==
    [][\A c \in Calls : calls'[c] # calls[c] =>
           \A d \in Calls \ {c} : calls'[d] = calls[d]]_vars

\* C15's case: two calls with different parameters, the second answered while
\* the first was still in flight, both returning a table of their own
C15_Witness ==
    /\ calls[1].pc = "done" /\ calls[2].pc = "done"
    /\ calls[2].overlap >= 1
    /\ Unwrap(calls[1].args).parameters # Unwrap(calls[2].args).parameters
    /\ calls[1].outcome.tag = "Ok" /\ calls[2].outcome.tag = "Ok"
    /\ calls[1].outcome.response_body # calls[2].outcome.response_body

(* C16: format() never consults time_list: the formatted value with its     *)
(* time_list replaced by any other one (absent, empty or any list) formats  *)
(* to the identical outcome, the same Ok text or the same error.            *)
C16_TimeListIgnored ==
    fpc = "formatted" =>
        \A tl \in OptionsOf(TimeLists) :
            Format([Unwrap(vdt) EXCEPT !.time_list = tl]) = fmt

\* C16's case: a value holding a non-empty time_list has been formatted
C16_Witness ==
    /\ fpc = "formatted"
    /\ IsSome(Unwrap(vdt).time_list)
    /\ Len(Unwrap(Unwrap(vdt).time_list)) > 0

\* C16's case on the error side: such a value refused by format()
C16_WitnessErr ==
    /\ C16_Witness
    /\ fmt.tag = "Err"

====
